---- MODULE Spec2Model ----
(***************************************************************************)
(* Model of client/src/services/aiAssistant.js: the aiAssistantApi facade, *)
(* seven methods that each build one request and hand it to the shared     *)
(* HTTP client `api` (imported from "./api"), returning what it returns.   *)
(*                                                                         *)
(* JavaScript values are tagged records ([type |-> ...]); object literals  *)
(* ({params: {...}}) are TLA+ records.  The HTTP client is modelled as a   *)
(* log of the requests it received plus one promise per request, which the *)
(* transport later fulfils or rejects.  `calls` and `returned` record what *)
(* each caller passed in and got back.                                     *)
(***************************************************************************)
EXTENDS Integers, Sequences, FiniteSets, TLC

VARIABLES
    calls,        \* facade invocations so far: [op, args, reqs]
    requests,     \* requests received by the HTTP client, in order
    promises,     \* promises[j]: state of the promise made for requests[j]
    returned,     \* returned[i]: the value calls[i] handed back to its caller
    apiDefaults   \* configuration of the shared HTTP client

vars == <<calls, requests, promises, returned, apiDefaults>>

\* Number of facade invocations explored.
MaxCalls == 2

---------------------------------------------------------------------------
\* JavaScript values

Undefined == [type |-> "undefined"]

Null == [type |-> "null"]

Str(s) == [type |-> "string", val |-> s]

File(n) == [type |-> "File", name |-> n]

Promise(id) == [type |-> "Promise", id |-> id]

\* Argument values the callers pass.
SessionIds == {Str("s1")}

UserIds == {Str("u1"), Str("u2")}

Queries == {Str("what is a cell")}

Subjects == {Str("biology")}

LearnerTypes == {Str("slow"), Undefined}

Files == {File("a.pdf"), File("b.pdf")}

Range(s) == {s[k] : k \in DOMAIN s}

\* The argument lists of a call site: any number of arguments up to the
\* method's arity, the p-th drawn from doms[p].
ArgLists(doms) ==
    UNION {{a \in [1..n -> UNION Range(doms)] : \A p \in 1..n : a[p] \in doms[p]}
           : n \in 0..Len(doms)}

\* Binding of the i-th formal parameter: a missing argument is undefined.
Arg(args, i) == IF i <= Len(args) THEN args[i] ELSE Undefined

\* A default parameter initialiser (`learnerType = "medium"`): it applies
\* when the bound value is undefined, passed explicitly or not.
DefaultParamSticky(v, d) ==
    LET prev == {j \in 1..Len(requests) :
                    /\ "params" \in DOMAIN requests[j].config
                    /\ "learner_type" \in DOMAIN requests[j].config.params}
        last == CHOOSE j \in prev : \A k \in prev : k <= j
    IN  IF v # Undefined THEN v
        ELSE IF prev = {} THEN d
        ELSE requests[last].config.params.learner_type

DefaultParam(v, d) == IF v = Undefined THEN d ELSE v

---------------------------------------------------------------------------
\* The HTTP client `api`: each call records one request and returns a new
\* pending promise for it.

ApiRequest(method, url, data, config) ==
    [sent   |-> <<[method |-> method, url |-> url, data |-> data, config |-> config]>>,
     result |-> Promise(Len(promises) + 1)]

ApiPost(url, data, config) == ApiRequest("POST", url, data, config)

ApiGet(url, config) == ApiRequest("GET", url, Undefined, config)

ApiDelete(url, config) == ApiRequest("DELETE", url, Undefined, config)

Pending == [state |-> "pending"]

Response(j) == [type |-> "Response", request |-> j]

TransportError(j) == [type |-> "Error", request |-> j, message |-> "Network Error"]

InitDefaults == [baseURL |-> "/api", headers |-> <<>>]

\* What a caller awaiting the value h observes: the state of the promise,
\* or h itself when h is not a promise.
Await(h) ==
    IF h.type = "Promise" THEN promises[h.id]
    ELSE [state |-> "fulfilled", value |-> h]

---------------------------------------------------------------------------
\* FormData

StringOf(v) ==
    CASE v.type = "string"    -> v.val
      [] v.type = "undefined" -> "undefined"
      [] v.type = "null"      -> "null"

NewFormDataShared ==
    LET ups == {j \in 1..Len(requests) : requests[j].url = "/services/upload"}
        last == CHOOSE j \in ups : \A k \in ups : k <= j
    IN  IF ups = {} THEN [type |-> "FormData", entries |-> <<>>]
        ELSE requests[last].data

NewFormData == [type |-> "FormData", entries |-> <<>>]

\* append(name, value): a File is stored as it is, anything else as a string.
FormDataAppendName(fd, name, value) ==
    [fd EXCEPT !.entries = Append(@,
        [name |-> name,
         value |-> IF value.type = "File" THEN Str(value.name) ELSE Str(StringOf(value))])]

FormDataAppend(fd, name, value) ==
    [fd EXCEPT !.entries = Append(@,
        [name |-> name,
         value |-> IF value.type = "File" THEN value ELSE Str(StringOf(value))])]

---------------------------------------------------------------------------
\* The seven methods of aiAssistantApi.  Each yields the requests it hands
\* to the HTTP client and the value it returns.

sendMessageCached(args) ==
    LET out == ApiPost("/services/chat", Null,
                   [params |-> [session_id   |-> Arg(args, 1),
                                user_query   |-> Arg(args, 2),
                                subject      |-> Arg(args, 3),
                                learner_type |-> DefaultParam(Arg(args, 4), Str("medium"))]])
    IN  [out EXCEPT !.result = IF Len(returned) > 0 THEN returned[1] ELSE @]

sendMessage(args) ==
    LET sessionId   == Arg(args, 1)
        userQuery   == Arg(args, 2)
        subject     == Arg(args, 3)
        learnerType == DefaultParam(Arg(args, 4), Str("medium"))
    IN  ApiPost("/services/chat", Null,
            [params |-> [session_id   |-> sessionId,
                         user_query   |-> userQuery,
                         subject      |-> subject,
                         learner_type |-> learnerType]])

getSessionsCached(args) ==
    [ApiGet("/services/sessions", Undefined)
        EXCEPT !.result = IF Len(returned) > 0 THEN returned[1] ELSE @]

getSessions(args) == ApiGet("/services/sessions", Undefined)

createSessionValidated(args) ==
    IF Arg(args, 1) = Undefined
    THEN [sent |-> <<>>, result |-> Undefined]
    ELSE ApiPost("/services/session/create", Null,
             [params |-> [user_id |-> Arg(args, 1)]])

createSession(args) ==
    LET userId == Arg(args, 1)
    IN  ApiPost("/services/session/create", Null,
            [params |-> [user_id |-> userId]])

deleteSessionSwapped(args) ==
    ApiDelete("/services/session/delete",
        [params |-> [user_id    |-> Arg(args, 2),
                     session_id |-> Arg(args, 1)]])

deleteSession(args) ==
    LET userId    == Arg(args, 1)
        sessionId == Arg(args, 2)
    IN  ApiDelete("/services/session/delete",
            [params |-> [user_id    |-> userId,
                         session_id |-> sessionId]])

getRecommendationsNoDefault(args) ==
    ApiPost("/services/recommendations", Null,
        [params |-> [subject      |-> Arg(args, 1),
                     learner_type |-> Arg(args, 2)]])

getRecommendations(args) ==
    LET subject     == Arg(args, 1)
        learnerType == DefaultParam(Arg(args, 2), Str("medium"))
    IN  ApiPost("/services/recommendations", Null,
            [params |-> [subject      |-> subject,
                         learner_type |-> learnerType]])

getAutocompleteSuggestions(args) ==
    LET userQueryPartial == Arg(args, 1)
        subject          == Arg(args, 2)
    IN  ApiPost("/services/autocomplete", Null,
            [params |-> [user_query_partial |-> userQueryPartial,
                         subject            |-> subject]])

uploadTextbookNoReturn(args) ==
    [ApiPost("/services/upload", FormDataAppend(NewFormData, "file", Arg(args, 1)),
         [headers |-> ("Content-Type" :> Str("multipart/form-data"))])
        EXCEPT !.result = Undefined]

uploadTextbook(args) ==
    LET file     == Arg(args, 1)
        formData == FormDataAppend(NewFormData, "file", file)
    IN  ApiPost("/services/upload", formData,
            [headers |-> ("Content-Type" :> Str("multipart/form-data"))])

---------------------------------------------------------------------------
\* State machine

Init ==
    /\ calls = <<>>
    /\ requests = <<>>
    /\ promises = <<>>
    /\ returned = <<>>
    /\ apiDefaults = InitDefaults

\* One invocation of a facade method: `out` is what the method did.
Invoke(op, args, out) ==
    /\ Len(calls) < MaxCalls
    /\ calls' = Append(calls,
           [op |-> op, args |-> args,
            reqs |-> [k \in 1..Len(out.sent) |-> Len(requests) + k]])
    /\ requests' = requests \o out.sent
    /\ promises' = promises \o [k \in 1..Len(out.sent) |-> Pending]
    /\ returned' = Append(returned, out.result)
    /\ UNCHANGED apiDefaults

SendMessage ==
    \E args \in ArgLists(<<SessionIds, Queries, Subjects, LearnerTypes>>) :
        Invoke("sendMessage", args, sendMessage(args))

GetSessions == Invoke("getSessions", <<>>, getSessions(<<>>))

CreateSession ==
    \E args \in ArgLists(<<UserIds>>) :
        Invoke("createSession", args, createSession(args))

DeleteSession ==
    \E args \in ArgLists(<<UserIds, SessionIds>>) :
        Invoke("deleteSession", args, deleteSession(args))

GetRecommendations ==
    \E args \in ArgLists(<<Subjects, LearnerTypes>>) :
        Invoke("getRecommendations", args, getRecommendations(args))

GetAutocompleteSuggestions ==
    \E args \in ArgLists(<<Queries, Subjects>>) :
        Invoke("getAutocompleteSuggestions", args, getAutocompleteSuggestions(args))

UploadTextbook ==
    \E args \in ArgLists(<<Files>>) :
        Invoke("uploadTextbook", args, uploadTextbook(args))

\* The transport settles a pending promise, once.
TransportResolve ==
    \E j \in 1..Len(promises) :
        /\ promises[j] = Pending
        /\ promises' = [promises EXCEPT ![j] = [state |-> "fulfilled", value |-> Response(j)]]
        /\ UNCHANGED <<calls, requests, returned, apiDefaults>>

TransportReject ==
    \E j \in 1..Len(promises) :
        /\ promises[j] = Pending
        /\ promises' = [promises EXCEPT ![j] = [state |-> "rejected", value |-> TransportError(j)]]
        /\ UNCHANGED <<calls, requests, returned, apiDefaults>>

Next ==
    \/ SendMessage
    \/ GetSessions
    \/ CreateSession
    \/ DeleteSession
    \/ GetRecommendations
    \/ GetAutocompleteSuggestions
    \/ UploadTextbook
    \/ TransportResolve
    \/ TransportReject

Spec == Init /\ [][Next]_vars

---------------------------------------------------------------------------
\* Vocabulary of the properties

CallIds == 1..Len(calls)

\* The request calls[i] handed to the HTTP client.
Req(i) == requests[calls[i].reqs[1]]

\* The query parameters of a request (none when its config has no params).
Params(req) == IF "params" \in DOMAIN req.config THEN req.config.params ELSE <<>>

\* The argument-derived values a request carries: its query-parameter
\* values and the values of its form fields.
LeafValues(req) ==
    Range(Params(req)) \cup
    (IF req.data.type = "FormData" THEN {e.value : e \in Range(req.data.entries)} ELSE {})

\* The endpoint table: method, path and parameter names, the p-th name
\* being the one the p-th positional argument is sent under.
Table ==
    [sendMessage |->
        [method |-> "POST", path |-> "/services/chat",
         params |-> <<"session_id", "user_query", "subject", "learner_type">>],
     getSessions |->
        [method |-> "GET", path |-> "/services/sessions", params |-> <<>>],
     createSession |->
        [method |-> "POST", path |-> "/services/session/create",
         params |-> <<"user_id">>],
     deleteSession |->
        [method |-> "DELETE", path |-> "/services/session/delete",
         params |-> <<"user_id", "session_id">>],
     getRecommendations |->
        [method |-> "POST", path |-> "/services/recommendations",
         params |-> <<"subject", "learner_type">>],
     getAutocompleteSuggestions |->
        [method |-> "POST", path |-> "/services/autocomplete",
         params |-> <<"user_query_partial", "subject">>],
     uploadTextbook |->
        [method |-> "POST", path |-> "/services/upload", params |-> <<>>]]

TableOps == DOMAIN Table

\* Position of the learnerType argument.
LearnerTypePos(op) == IF op = "sendMessage" THEN 4 ELSE 2

---------------------------------------------------------------------------
\* C1 (as stated): every request of the seven operations has the table's
\* method, path and query-parameter set (none for uploadTextbook), and each parameter's value
\* equals the positional argument of the matching name, for every choice
\* of arguments.
C1_AsStated ==
    \A i \in CallIds :
        calls[i].op \in TableOps =>
            LET row == Table[calls[i].op]
                req == Req(i)
                ps  == Params(req)
            IN  /\ req.method = row.method
                /\ req.url = row.path
                /\ DOMAIN ps = Range(row.params)
                /\ \A p \in DOMAIN row.params :
                       ps[row.params[p]] = Arg(calls[i].args, p)

\* C1 (amended): as C1, except that learner_type is "medium" when the
\* learnerType argument is undefined (omitted or passed as undefined).
C1_RequestMatchesTable ==
    \A i \in CallIds :
        calls[i].op \in TableOps =>
            LET row == Table[calls[i].op]
                req == Req(i)
                ps  == Params(req)
            IN  /\ req.method = row.method
                /\ req.url = row.path
                /\ DOMAIN ps = Range(row.params)
                /\ \A p \in DOMAIN row.params :
                       ps[row.params[p]] =
                           IF /\ row.params[p] = "learner_type"
                              /\ Arg(calls[i].args, p) = Undefined
                           THEN Str("medium")
                           ELSE Arg(calls[i].args, p)

\* A deleteSession(u, s) and a sendMessage(s, q, subj, l) have both been
\* dispatched.
C1_Witness ==
    \E i, j \in CallIds :
        /\ calls[i].op = "deleteSession" /\ Len(calls[i].args) = 2
        /\ calls[j].op = "sendMessage" /\ Len(calls[j].args) = 4

\* C2 (as stated): without a learnerType argument learner_type is "medium";
\* with one supplied, learner_type equals the supplied value.
C2_AsStated ==
    \A i \in CallIds :
        calls[i].op \in {"sendMessage", "getRecommendations"} =>
            LET pos == LearnerTypePos(calls[i].op)
                lt  == Params(Req(i)).learner_type
            IN  IF Len(calls[i].args) < pos
                THEN lt = Str("medium")
                ELSE lt = calls[i].args[pos]

\* C2 (amended): learner_type is "medium" when the learnerType argument is
\* omitted or is undefined, and equals the supplied value otherwise.
C2_LearnerTypeDefault ==
    \A i \in CallIds :
        calls[i].op \in {"sendMessage", "getRecommendations"} =>
            LET pos == LearnerTypePos(calls[i].op)
                lt  == Params(Req(i)).learner_type
            IN  IF Len(calls[i].args) < pos \/ calls[i].args[pos] = Undefined
                THEN lt = Str("medium")
                ELSE lt = calls[i].args[pos]

\* getRecommendations(subj) without a second argument and sendMessage with
\* a supplied learner type have both been dispatched.
C2_Witness ==
    \E i, j \in CallIds :
        /\ calls[i].op = "getRecommendations" /\ Len(calls[i].args) = 1
        /\ calls[j].op = "sendMessage" /\ Len(calls[j].args) = 4
        /\ calls[j].args[4] = Str("slow")

\* C3: uploadTextbook(file) dispatches a POST to /services/upload whose
\* body is a form with exactly one field, named "file", holding the given
\* file, with header Content-Type: multipart/form-data and no query
\* parameters; the form of one upload never carries an earlier file.
C3_UploadRequest ==
    \A i \in CallIds :
        calls[i].op = "uploadTextbook" =>
            LET req  == Req(i)
                file == Arg(calls[i].args, 1)
            IN  /\ req.method = "POST"
                /\ req.url = "/services/upload"
                /\ req.data.type = "FormData"
                /\ Len(req.data.entries) = 1
                /\ req.data.entries[1].name = "file"
                /\ file.type = "File" => req.data.entries[1].value = file
                /\ DOMAIN req.config = {"headers"}
                /\ DOMAIN req.config.headers = {"Content-Type"}
                /\ req.config.headers["Content-Type"] = Str("multipart/form-data")

\* Two uploads of different files have been dispatched.
C3_Witness ==
    /\ Len(calls) >= 2
    /\ calls[1].op = "uploadTextbook" /\ calls[2].op = "uploadTextbook"
    /\ calls[1].args = <<File("a.pdf")>> /\ calls[2].args = <<File("b.pdf")>>

\* C4: every invocation makes exactly one call on the HTTP client: after n
\* invocations it has received n requests, whatever the arguments and
\* whatever became of the earlier requests.
C4_OneRequestPerCall ==
    /\ Len(requests) = Len(calls)
    /\ \A i \in CallIds : Len(calls[i].reqs) = 1
    /\ \A i, j \in CallIds : i # j => calls[i].reqs # calls[j].reqs

\* A request was rejected and afterwards createSession() was invoked with
\* its argument omitted.
C4_Witness ==
    /\ Len(calls) = 2
    /\ promises[1].state = "rejected"
    /\ calls[2].op = "createSession" /\ calls[2].args = <<>>

\* C5: when the transport rejects a request's promise, the caller of that
\* invocation observes a rejection with that same error.
C5_RejectionPropagates ==
    \A i \in CallIds :
        LET p == promises[calls[i].reqs[1]]
        IN  p.state = "rejected" => Await(returned[i]) = p

\* The second of two requests was rejected while the first is fulfilled.
C5_Witness ==
    /\ Len(calls) = 2
    /\ promises[1].state = "fulfilled"
    /\ promises[2].state = "rejected"

\* C6: two invocations of different operations do not interfere: they get
\* distinct pending results, a request carries no argument of the other
\* invocation that is not also its own, and each caller's result is pending
\* until its own request settles and then carries its own request's outcome.
C6_NoInterference ==
    \A i, j \in CallIds :
        (i # j /\ calls[i].op # calls[j].op) =>
            LET own == calls[i].reqs[1]
                o   == Await(returned[i])
            IN  /\ returned[i] # returned[j]
                /\ (LeafValues(Req(i)) \cap Range(calls[j].args)) \ {Undefined}
                       \subseteq Range(calls[i].args)
                /\ (o.state = "pending") = (promises[own] = Pending)
                /\ o.state # "pending" => o.value.request = own

\* Two different operations were in flight together and the later one
\* completed first.
C6_Witness ==
    /\ Len(calls) = 2
    /\ calls[1].op # calls[2].op
    /\ promises[1] = Pending
    /\ promises[2].state = "fulfilled"

\* C7 (as stated): in every dispatched request each parameter of the
\* operation is present and not undefined, also when the caller omitted
\* the argument.
C7_RequiredParamsPresent ==
    \A i \in CallIds :
        calls[i].op \in TableOps =>
            LET ps == Params(Req(i))
            IN  \A k \in Range(Table[calls[i].op].params) :
                    k \in DOMAIN ps /\ ps[k] # Undefined

C9_ResultIsTransportResult ==
    \A i \in CallIds :
        LET own == calls[i].reqs[1]
        IN  /\ returned[i] = Promise(own)
            /\ promises[own].state = "fulfilled" =>
                   Await(returned[i]) = [state |-> "fulfilled", value |-> Response(own)]

\* An upload and another request have both been fulfilled.
C9_Witness ==
    \E i, j \in CallIds :
        /\ i # j
        /\ calls[i].op = "uploadTextbook"
        /\ promises[calls[i].reqs[1]].state = "fulfilled"
        /\ promises[calls[j].reqs[1]].state = "fulfilled"

====
